---- MODULE Spec2Model ----
(***************************************************************************)
(* URL routing table of parkhang/api/urls.py.                              *)
(*                                                                         *)
(* The four entries of urlpatterns are regular expressions handed to       *)
(* django.conf.urls.url().  A request path is resolved by trying the       *)
(* entries in list order; an entry matches when regex.search(path) finds   *)
(* a match, and the named groups of the match become the keyword           *)
(* arguments of the view.  Paths are sequences of one-character strings.   *)
(***************************************************************************)
EXTENDS Naturals, Sequences, FiniteSets

VARIABLES path, pc, result, prev, nprefix

vars == <<path, pc, result, prev, nprefix>>

----------------------------------------------------------------------------
(* Bounds of the model *)

\* longest identifier placed after 'texts/' in a generated path
MaxIdLen == 3
\* how many times a resolved path is extended at the front and resolved again
MaxPrefixes == 1

----------------------------------------------------------------------------
(* Characters *)

\* the words the patterns are made of, and the line feed
texts == <<"t", "e", "x", "t", "s">>
witnesses == <<"w", "i", "t", "n", "e", "s", "s", "e", "s">>
annotations == <<"a", "n", "n", "o", "t", "a", "t", "i", "o", "n", "s">>
Slash == <<"/">>
LF == <<"\n">>

\* code point of the characters that occur in the model's paths
Ord(c) ==
    CASE c = "\n" -> 10
      [] c = "/" -> 47
      [] c = "0" -> 48
      [] c = "9" -> 57
      [] c = "a" -> 97
      [] c = "e" -> 101
      [] c = "i" -> 105
      [] c = "n" -> 110
      [] c = "o" -> 111
      [] c = "s" -> 115
      [] c = "t" -> 116
      [] c = "w" -> 119
      [] c = "x" -> 120
      [] c = "z" -> 122

\* the class [a-z0-9]: what the group would accept had it been written
\* with a word class instead of a digit class
WordClass(c) ==
    \/ Ord("0") <= Ord(c) /\ Ord(c) <= Ord("9")
    \/ Ord("a") <= Ord(c) /\ Ord(c) <= Ord("z")

\* the class [1-9]
PositiveDigitClass(c) == Ord("0") < Ord(c) /\ Ord(c) <= Ord("9")

\* the character class [0-9] of the text_id group
DigitClass(c) == Ord("0") <= Ord(c) /\ Ord(c) <= Ord("9")

----------------------------------------------------------------------------
(* Regular expressions: a pattern is a sequence of items *)

\* a literal character
Lit(c) == [t |-> "lit", c |-> c, name |-> "", min |-> 0]
\* c? : an optional literal character, greedy
Opt(c) == [t |-> "opt", c |-> c, name |-> "", min |-> 0]
\* (?P<name>[0-9]+) : a named group of one or more digits, greedy
Group(name) == [t |-> "group", c |-> "", name |-> name, min |-> 1]
\* (?P<name>[0-9]*)
GroupStar(name) == [t |-> "group", c |-> "", name |-> name, min |-> 0]
\* $ : the end of the string, or just before a line feed that ends it
Eol == [t |-> "eol", c |-> "", name |-> "", min |-> 0]

\* the literal items of a word
Lits(w) == [i \in 1..Len(w) |-> Lit(w[i])]

Fail == [ok |-> FALSE, kwargs |-> {}]

\* number of consecutive characters of the class at s[i], s[i+1], ...
RECURSIVE Run(_, _)
Run(s, i) ==
    IF i <= Len(s) /\ DigitClass(s[i]) THEN 1 + Run(s, i + 1) ELSE 0

\* Backtracking match of items k.. of re at position i of s; kwargs are the
\* groups bound so far, as a set of <<name, value>> pairs.
RECURSIVE MatchAt(_, _, _, _, _)
RECURSIVE Repeat(_, _, _, _, _, _)
MatchAt(re, k, s, i, kwargs) ==
    IF k > Len(re) THEN [ok |-> TRUE, kwargs |-> kwargs]
    ELSE LET it == re[k] IN
         CASE it.t = "lit" ->
                IF i <= Len(s) /\ s[i] = it.c
                THEN MatchAt(re, k + 1, s, i + 1, kwargs)
                ELSE Fail
           [] it.t = "opt" ->
                LET taken == IF i <= Len(s) /\ s[i] = it.c
                             THEN MatchAt(re, k + 1, s, i + 1, kwargs)
                             ELSE Fail
                IN  IF taken.ok THEN taken ELSE MatchAt(re, k + 1, s, i, kwargs)
           [] it.t = "group" -> Repeat(re, k, s, i, Run(s, i), kwargs)
           [] it.t = "eol" ->
                IF i = Len(s) + 1 \/ (i = Len(s) /\ s[i] = "\n")
                THEN MatchAt(re, k + 1, s, i, kwargs)
                ELSE Fail

\* the group at item k takes n characters, then n - 1, ... down to its minimum
Repeat(re, k, s, i, n, kwargs) ==
    IF n < re[k].min THEN Fail
    ELSE LET r == MatchAt(re, k + 1, s, i + n,
                          kwargs \cup {<<re[k].name, SubSeq(s, i, i + n - 1)>>})
         IN  IF r.ok THEN r
             ELSE IF n = 0 THEN Fail
             ELSE Repeat(re, k, s, i, n - 1, kwargs)

\* the leftmost start position at or after start where re matches
RECURSIVE SearchFrom(_, _, _)
SearchFrom(re, s, start) ==
    IF start > Len(s) + 1 THEN Fail
    ELSE LET r == MatchAt(re, 1, s, start, {})
         IN  IF r.ok THEN r ELSE SearchFrom(re, s, start + 1)

\* regex.match: a match at the start of the path only
MatchAtStart(re, s) == MatchAt(re, 1, s, 1, {})

\* regex.search, as the url() entry applies its pattern to the path
Search(re, s) == SearchFrom(re, s, 1)

----------------------------------------------------------------------------
(* The routing table *)

\* r'texts$'
TextListReNoSlash == Lits(texts) \o <<Eol>>

\* r'texts/$'
TextListRe == Lits(texts \o Slash) \o <<Eol>>

\* r'texts/(?P<text_id>[0-9]*)/?$'
TextDetailReStar ==
    Lits(texts \o Slash) \o <<GroupStar("text_id"), Opt("/"), Eol>>

\* r'texts/(?P<text_id>[0-9]+)/?'
TextDetailReOpenEnd ==
    Lits(texts \o Slash) \o <<Group("text_id"), Opt("/")>>

\* r'texts/([0-9]+)/?$' : the group is not named, so it binds no keyword
TextDetailReUnnamed ==
    Lits(texts \o Slash) \o <<Group(""), Opt("/"), Eol>>

\* r'texts/(?P<text_id>[0-9]+)/$'
TextDetailReSlash ==
    Lits(texts \o Slash) \o <<Group("text_id"), Lit("/"), Eol>>

\* r'texts/(?P<text_id>[0-9]+)/?$'
TextDetailRe ==
    Lits(texts \o Slash) \o <<Group("text_id"), Opt("/"), Eol>>

\* r'texts/(?P<text_id>[0-9]*)/witnesses/$'
WitnessListReStar ==
    Lits(texts \o Slash) \o <<GroupStar("text_id")>>
        \o Lits(Slash \o witnesses \o Slash) \o <<Eol>>

\* r'texts/(?P<text_id>[0-9]+)/witnesses/$'
WitnessListRe ==
    Lits(texts \o Slash) \o <<Group("text_id")>>
        \o Lits(Slash \o witnesses \o Slash) \o <<Eol>>

\* r'texts/(?P<text_id>[0-9]+)/annotations/$'
AnnotationListRe ==
    Lits(texts \o Slash) \o <<Group("text_id")>>
        \o Lits(Slash \o annotations \o Slash) \o <<Eol>>

\* the table with the last entry a copy of the one before it
urlpatternsCopied ==
    << [regex |-> TextListRe, view |-> "TextList"],
       [regex |-> TextDetailRe, view |-> "TextDetail"],
       [regex |-> WitnessListRe, view |-> "WitnessList"],
       [regex |-> WitnessListRe, view |-> "AnnotationList"] >>

urlpatterns ==
    << [regex |-> TextListRe, view |-> "TextList"],
       [regex |-> TextDetailRe, view |-> "TextDetail"],
       [regex |-> WitnessListRe, view |-> "WitnessList"],
       [regex |-> AnnotationListRe, view |-> "AnnotationList"] >>

\* no entry matched
Resolver404 == [view |-> "Resolver404", kwargs |-> {}]

\* what each entry of patterns, from index k on, finds in s:
\* pattern.resolve(path) for every entry, in list order
RECURSIVE OutcomesFrom(_, _, _)
OutcomesFrom(patterns, s, k) ==
    IF k > Len(patterns) THEN <<>>
    ELSE <<[view |-> patterns[k].view, m |-> Search(patterns[k].regex, s)]>>
            \o OutcomesFrom(patterns, s, k + 1)

Outcomes(patterns, s) == OutcomesFrom(patterns, s, 1)

\* the first outcome, from index k on, that is a match
RECURSIVE FirstMatch(_, _)
FirstMatch(outs, k) ==
    IF k > Len(outs) THEN Resolver404
    ELSE IF outs[k].m.ok
         THEN [view |-> outs[k].view, kwargs |-> outs[k].m.kwargs]
         ELSE FirstMatch(outs, k + 1)

\* resolution of a path against a list of entries, tried in list order
ResolveIn(patterns, s) == FirstMatch(Outcomes(patterns, s), 1)

\* resolution of a path against urlpatterns
Resolve(s) == ResolveIn(urlpatterns, s)

----------------------------------------------------------------------------
(* Request paths *)

\* characters an identifier is made of: the two ends of [0-9] and a letter
IdChars == {"0", "9", "a"}

\* identifiers of at most MaxIdLen characters, the empty one included
Ids == UNION {[1..n -> IdChars] : n \in 0..MaxIdLen}

Heads == {<<>>, texts}
Seps == {<<>>, Slash}
Tails == {<<>>, witnesses, annotations, texts}
Ends == {<<>>, LF}

\* head sep id sep tail sep end
Paths ==
    {h \o s1 \o id \o s2 \o t \o s3 \o e :
        h \in Heads, s1 \in Seps, id \in Ids, s2 \in Seps,
        t \in Tails, s3 \in Seps, e \in Ends}

\* what a path is extended with at the front: a character that joins the
\* word 'texts', the start of another route, and a whole other route
Prefixes == {<<"x">>, texts \o Slash, texts \o <<"/", "0", "/">>}

----------------------------------------------------------------------------
(* The resolver as a state machine *)

Init ==
    /\ path \in Paths
    /\ pc = "request"
    /\ result = Resolver404
    /\ prev = Resolver404
    /\ nprefix = 0

\* the path of the pending request is resolved against urlpatterns
ResolveRequest ==
    /\ pc = "request"
    /\ result' = Resolve(path)
    /\ pc' = "resolved"
    /\ UNCHANGED <<path, prev, nprefix>>

\* a further request whose path is p followed by a path that resolved to a view
PrefixedRequest ==
    /\ pc = "resolved"
    /\ result # Resolver404
    /\ nprefix < MaxPrefixes
    /\ \E p \in Prefixes : path' = p \o path
    /\ prev' = result
    /\ pc' = "request"
    /\ nprefix' = nprefix + 1
    /\ UNCHANGED result

Next == ResolveRequest \/ PrefixedRequest

Spec == Init /\ [][Next]_vars

----------------------------------------------------------------------------
(* Vocabulary of the properties *)

\* the decimal digits
Digits09 == {"0", "1", "2", "3", "4", "5", "6", "7", "8", "9"}

IsDigitString(d) == Len(d) >= 1 /\ \A i \in 1..Len(d) : d[i] \in Digits09

\* a single path segment with at least one character that is no digit
IsNonDigitSegment(x) ==
    /\ \A i \in 1..Len(x) : x[i] # "/"
    /\ \E i \in 1..Len(x) : x[i] \notin Digits09

\* s is pre, then something, then suf
HasForm(s, pre, suf) ==
    /\ Len(s) >= Len(pre) + Len(suf)
    /\ SubSeq(s, 1, Len(pre)) = pre
    /\ SubSeq(s, Len(s) - Len(suf) + 1, Len(s)) = suf

\* what stands between pre and suf in s
Middle(s, pre, suf) == SubSeq(s, Len(pre) + 1, Len(s) - Len(suf))

\* s is 'texts/d' followed by suf, for a string d of one or more digits
IsTextsDigits(s, suf) ==
    HasForm(s, texts \o Slash, suf) /\ IsDigitString(Middle(s, texts \o Slash, suf))

\* the identifier of such a path
IdIn(s, suf) == Middle(s, texts \o Slash, suf)

\* the views that take a text_id
IdViews == {"TextDetail", "WitnessList", "AnnotationList"}

\* the entry of urlpatterns for a view matches the path
Matches(view, s) ==
    \E k \in 1..Len(urlpatterns) :
        urlpatterns[k].view = view /\ Search(urlpatterns[k].regex, s).ok

\* a resolution to a view with text_id bound to d
Bound(view, d) == [view |-> view, kwargs |-> {<<"text_id", d>>}]

\* the value of a string of digits read as a decimal numeral
RECURSIVE IntValue(_)
IntValue(d) ==
    IF d = <<>> THEN 0
    ELSE 10 * IntValue(SubSeq(d, 1, Len(d) - 1)) + (Ord(d[Len(d)]) - Ord("0"))

\* the permutations of the positions of urlpatterns
Perms ==
    {f \in [1..Len(urlpatterns) -> 1..Len(urlpatterns)] :
        \A i, j \in 1..Len(urlpatterns) : f[i] = f[j] => i = j}

TextsId(d) == texts \o Slash \o d

----------------------------------------------------------------------------
(* Properties *)

\* C1: for every string d of one or more digits, 'texts/d/' resolves to
\* TextDetail with text_id bound to exactly d, leading zeros kept.
C1_DetailBindsId ==
    (pc = "resolved" /\ IsTextsDigits(path, Slash))
        => result = Bound("TextDetail", IdIn(path, Slash))

C1_Witness ==
    /\ pc = "resolved" /\ path = TextsId(<<"0", "9">>) \o Slash
    /\ result = Bound("TextDetail", <<"0", "9">>)

\* C2: 'texts/' resolves to TextList and never to TextDetail: the TextList
\* pattern matches it and the TextDetail pattern does not.
C2_ListNotDetail ==
    path = texts \o Slash =>
        /\ Matches("TextList", path)
        /\ ~Matches("TextDetail", path)
        /\ pc = "resolved" => result = [view |-> "TextList", kwargs |-> {}]

C2_Witness ==
    pc = "resolved" /\ path = texts \o Slash /\ result.view = "TextList"

\* C3: for every string d of one or more digits, 'texts/d/witnesses/' resolves
\* to WitnessList with text_id = d, and the TextDetail pattern does not match it.
C3_Witnesses ==
    IsTextsDigits(path, Slash \o witnesses \o Slash) =>
        /\ ~Matches("TextDetail", path)
        /\ pc = "resolved" =>
              result = Bound("WitnessList", IdIn(path, Slash \o witnesses \o Slash))

C3_Witness ==
    /\ pc = "resolved"
    /\ path = TextsId(<<"9", "0">>) \o Slash \o witnesses \o Slash
    /\ result = Bound("WitnessList", <<"9", "0">>)

\* C4: for every string d of one or more digits, 'texts/d/annotations/'
\* resolves to AnnotationList with text_id = d, and the TextDetail pattern
\* does not match it.
C4_Annotations ==
    IsTextsDigits(path, Slash \o annotations \o Slash) =>
        /\ ~Matches("TextDetail", path)
        /\ pc = "resolved" =>
              result = Bound("AnnotationList", IdIn(path, Slash \o annotations \o Slash))

C4_Witness ==
    /\ pc = "resolved"
    /\ path = TextsId(<<"9", "0">>) \o Slash \o annotations \o Slash
    /\ result = Bound("AnnotationList", <<"9", "0">>)

\* C5: for an identifier x of one segment with a character that is no digit,
\* none of 'texts/x/', 'texts/x/witnesses/', 'texts/x/annotations/' is matched
\* by the TextDetail, WitnessList or AnnotationList pattern, and none of those
\* views is selected.
C5_NonDigitRejected ==
    \A suf \in {Slash, Slash \o witnesses \o Slash, Slash \o annotations \o Slash} :
        (/\ HasForm(path, texts \o Slash, suf)
         /\ IsNonDigitSegment(IdIn(path, suf))) =>
            /\ \A v \in IdViews : ~Matches(v, path)
            /\ pc = "resolved" => result.view \notin IdViews

C5_Witness ==
    /\ pc = "resolved"
    /\ path = TextsId(<<"9", "a">>) \o Slash \o witnesses \o Slash
    /\ result = Resolver404

\* C6: whenever the TextDetail, WitnessList or AnnotationList pattern matches a
\* path, the bound text_id is a non-empty string of the characters 0-9; an
\* empty identifier ('texts//', 'texts//witnesses/', 'texts//annotations/')
\* matches none of the three.
C6_TextIdIsDigits ==
    /\ \A k \in 1..Len(urlpatterns) :
          LET m == Search(urlpatterns[k].regex, path)
          IN  (urlpatterns[k].view \in IdViews /\ m.ok) =>
                  \E b \in m.kwargs :
                      m.kwargs = {b} /\ b[1] = "text_id" /\ IsDigitString(b[2])
    /\ (pc = "resolved" /\ result.view \in IdViews) =>
          \E b \in result.kwargs :
              result.kwargs = {b} /\ b[1] = "text_id" /\ IsDigitString(b[2])
    /\ path \in {texts \o Slash \o Slash,
                 texts \o Slash \o Slash \o witnesses \o Slash,
                 texts \o Slash \o Slash \o annotations \o Slash} =>
          \A v \in IdViews : ~Matches(v, path)

C6_Witness ==
    /\ pc = "resolved"
    /\ path = texts \o Slash \o Slash \o witnesses \o Slash
    /\ result = Resolver404

\* C7 as stated: for every path that resolves to TextDetail, WitnessList or
\* AnnotationList the numeric value of the bound text_id is at least 1.
C7_Original ==
    (pc = "resolved" /\ result.view \in IdViews) =>
        \A b \in result.kwargs : IntValue(b[2]) >= 1

\* C7 as amended: the bound text_id is the numeral of an integer that is at
\* least 0, and 0 is admitted: 'texts/0/' and 'texts/000/' resolve to
\* TextDetail with text_id '0' and '000'.
C7_NonNegative ==
    /\ (pc = "resolved" /\ result.view \in IdViews) =>
          \A b \in result.kwargs : IsDigitString(b[2]) /\ IntValue(b[2]) >= 0
    /\ \A z \in {<<"0">>, <<"0", "0", "0">>} :
          (pc = "resolved" /\ path = TextsId(z) \o Slash)
              => result = Bound("TextDetail", z)

C7_Witness ==
    /\ pc = "resolved"
    /\ path = TextsId(<<"0", "0", "0">>) \o Slash
    /\ result.view = "TextDetail"
    /\ \A b \in result.kwargs : IntValue(b[2]) = 0

\* C8: at most one of the four patterns matches any path, so first-match
\* resolution gives the same view and text_id for every permutation of the
\* four entries of urlpatterns.
C8_OrderIrrelevant ==
    \A outs \in {Outcomes(urlpatterns, path)} :
        /\ Cardinality({k \in 1..Len(outs) : outs[k].m.ok}) <= 1
        /\ pc = "resolved" =>
              \A f \in Perms :
                  FirstMatch([i \in 1..Len(outs) |-> outs[f[i]]], 1) = result

C8_Witness ==
    /\ pc = "resolved" /\ nprefix > 0
    /\ path = TextsId(<<"0">>) \o Slash \o texts \o Slash
    /\ result.view = "TextList"

\* C9: the trailing slash is optional on the detail route only: 'texts/d'
\* resolves to TextDetail with text_id = d, while 'texts', 'texts/d/witnesses'
\* and 'texts/d/annotations' resolve to no view.
C9_OptionalSlash ==
    /\ (pc = "resolved" /\ IsTextsDigits(path, <<>>))
          => result = Bound("TextDetail", IdIn(path, <<>>))
    /\ (/\ pc = "resolved"
        /\ \/ path = texts
           \/ IsTextsDigits(path, Slash \o witnesses)
           \/ IsTextsDigits(path, Slash \o annotations))
          => result = Resolver404

C9_Witness ==
    /\ pc = "resolved" /\ path = TextsId(<<"0", "9">>)
    /\ result = Bound("TextDetail", <<"0", "9">>)

\* C10: the patterns are anchored at the end of the path only: when a path s
\* resolves to a view with a binding, p followed by s resolves to the same
\* view with the same binding, for every p.
C10_PrefixKeepsResolution ==
    (pc = "resolved" /\ nprefix > 0) => (result = prev /\ result # Resolver404)

C10_Witness ==
    /\ pc = "resolved" /\ nprefix > 0
    /\ path = <<"x">> \o TextsId(<<"9">>) \o Slash
    /\ result = Bound("TextDetail", <<"9">>)

====
